---- MODULE Spec2Model ----
(***************************************************************************)
(* gcs-cromwell-cleaner (src/main.rs): the locator parser, the artifact    *)
(* pattern, the per-page filter/remove tasks and the pagination loop of    *)
(* main, as a state machine.  Strings are sequences of one-character       *)
(* strings so that prefix tests, splits and the regular expression are     *)
(* computed character by character.                                        *)
(***************************************************************************)
EXTENDS Integers, Sequences, FiniteSets, TLC

VARIABLES
    dry_run,          \* Args.dry_run
    path,             \* Args.bucket, the gs:// locator given on the command line
    pc,               \* position of main
    gs_path,          \* main's gs_path (GsPath) once parsed, else None
    res,              \* main's res: the last ListObjectsResponse, else None
    exit_code,        \* process exit status once main has returned, else None
    err,              \* the error main returned, else None
    tasks,            \* the tasks spawned for handle_removal, in spawn order
    bucket_checks,    \* get_bucket requests issued
    list_calls,       \* page_token of every list_objects request issued, in order
    served,           \* index of the page each successful list call returned
    listed,           \* every object returned in some listing page
    delete_requests,  \* every DeleteObjectRequest issued
    printed,          \* the dry-run report lines, in print order per task
    arg,              \* the argument a unit test passes
    ret               \* what the function under test returned, else None

vars == <<dry_run, path, pc, gs_path, res, exit_code, err, tasks, bucket_checks,
          list_calls, served, listed, delete_requests, printed, arg, ret>>

\* Option<T>: None is the empty sequence, Some(x) the one-element sequence
None == <<>>
Some(x) == <<x>>

(***************************************************************************)
(* Bounds of the model.                                                    *)
(***************************************************************************)
\* longest locator remainder (after the scheme variants) the parser is fed
MaxPathLen == 3
\* longest item list handed to filter_objects on its own
MaxFilterLen == 2
\* most pages the backend serves for one prefix
MaxPages == 2
\* most objects the backend holds under the prefix
MaxObjects == 2

(***************************************************************************)
(* Strings.                                                                *)
(***************************************************************************)
Str_gs == <<"g","s",":","/","/">>
Str_my_bucket == <<"m","y","-","b","u","c","k","e","t">>
Str_my_folder == <<"m","y","_","f","o","l","d","e","r","/">>
Str_uuid == <<"b","1","8","9","1","5","4","b","-","f","d","2","6","-","4","e","d","1","-","a","6","f","0","-","4","f","6","1","9","1","f","1","e","8","2","0">>
Str_call == <<"/","c","a","l","l","-">>
Str_shard == <<"/","s","h","a","r","d","-">>
Str_script == <<"s","c","r","i","p","t">>
Str_rc == <<"r","c">>
Str_gcs_delocalization == <<"g","c","s","_","d","e","l","o","c","a","l","i","z","a","t","i","o","n",".","s","h">>
Str_gcs_localization == <<"g","c","s","_","l","o","c","a","l","i","z","a","t","i","o","n",".","s","h">>
Str_gcs_transfer == <<"g","c","s","_","t","r","a","n","s","f","e","r",".","s","h">>
Str_stdout == <<"s","t","d","o","u","t">>
Str_stderr == <<"s","t","d","e","r","r">>
Str_pipelines_logs == <<"p","i","p","e","l","i","n","e","s","-","l","o","g","s">>
Str_action == <<"a","c","t","i","o","n">>
Str_pipelines_action == <<"p","i","p","e","l","i","n","e","s","-","l","o","g","s","/","a","c","t","i","o","n","/">>
Str_bam == <<"m","y","_","f","a","k","e","_","o","t","h","e","r","_","f","i","l","e",".","b","a","m">>

Digit == {"0","1","2","3","4","5","6","7","8","9"}
HexDigit == Digit \cup {"a","b","c","d","e","f","A","B","C","D","E","F"}
\* \w of the regex crate, restricted to the ASCII characters the model uses
WordChar == Digit \cup {"_"} \cup
    {"a","b","c","d","e","f","g","h","i","j","k","l","m","n","o","p","q","r","s","t","u","v","w","x","y","z"} \cup
    {"A","B","C","D","E","F","G","H","I","J","K","L","M","N","O","P","Q","R","S","T","U","V","W","X","Y","Z"}
\* the class [\w_\-]
CallChar == WordChar \cup {"_", "-"}

\* mutant of starts_with: only the scheme name "gs:" is compared, not the "//"
starts_with_scheme_name(s, prefix) ==
    /\ Len(s) >= Len(prefix) - 2
    /\ \A i \in 1..(Len(prefix) - 2) : s[i] = prefix[i]

\* str::starts_with
starts_with(s, prefix) ==
    /\ Len(s) >= Len(prefix)
    /\ \A i \in 1..Len(prefix) : s[i] = prefix[i]

\* str::strip_prefix(..).unwrap(), called only when starts_with holds
strip_prefix(s, prefix) == SubSeq(s, Len(prefix) + 1, Len(s))

\* index of the last occurrence of character c in s, 0 when there is none
LastIndex(s, c) ==
    IF \E i \in 1..Len(s) : s[i] = c
    THEN CHOOSE i \in 1..Len(s) : s[i] = c /\ \A j \in (i + 1)..Len(s) : s[j] # c
    ELSE 0

\* mutant of splitn2: the split is at the last c (rsplitn), not the first
rsplitn2(s, c) ==
    LET i == LastIndex(s, c)
    IN  IF i = 0 THEN <<s>>
        ELSE <<SubSeq(s, 1, i - 1), SubSeq(s, i + 1, Len(s))>>

\* index of the first occurrence of character c in s, 0 when there is none
FirstIndex(s, c) ==
    IF \E i \in 1..Len(s) : s[i] = c
    THEN CHOOSE i \in 1..Len(s) : s[i] = c /\ \A j \in 1..(i - 1) : s[j] # c
    ELSE 0

\* mutant of splitn2: a missing separator yields an empty second part
\* (split_once(c).unwrap_or((s, "")))
split_once_or_empty(s, c) ==
    IF \E i \in 1..Len(s) : s[i] = c
    THEN LET i == CHOOSE i \in 1..Len(s) : s[i] = c /\ \A j \in 1..(i - 1) : s[j] # c
         IN  <<SubSeq(s, 1, i - 1), SubSeq(s, i + 1, Len(s))>>
    ELSE <<s, <<>>>>

\* str::splitn(2, c).collect(): at most two parts, split at the first c
splitn2(s, c) ==
    LET i == FirstIndex(s, c)
    IN  IF i = 0 THEN <<s>>
        ELSE <<SubSeq(s, 1, i - 1), SubSeq(s, i + 1, Len(s))>>

(***************************************************************************)
(* parse_gsutil_path.                                                      *)
(***************************************************************************)
ErrNoPrefix == "Invalid gsutil path format, no gs:// prefix"
ErrNoFolder == "Invalid gsutil path format, no folder specified"

Ok(v) == [ok |-> TRUE, val |-> v]
Err(e) == [ok |-> FALSE, err |-> e]

parse_gsutil_path(p) ==
    IF ~starts_with(p, Str_gs) THEN Err(ErrNoPrefix)
    ELSE LET path_without_gs == strip_prefix(p, Str_gs)
             parts == splitn2(path_without_gs, "/")
         IN  IF Len(parts) < 2 THEN Err(ErrNoFolder)
             ELSE Ok([bucket |-> parts[1], folder |-> parts[2]])

(***************************************************************************)
(* RE: the artifact pattern, and Regex::is_match (an unanchored search).   *)
(***************************************************************************)
\* the literal lit occurs in s at position p
LitAt(s, p, lit) ==
    /\ p + Len(lit) - 1 <= Len(s)
    /\ \A i \in 1..Len(lit) : s[p + i - 1] = lit[i]

\* the n characters of s from position p are all of class C
ClassAt(s, p, n, C) ==
    /\ p + n - 1 <= Len(s)
    /\ \A i \in 0..(n - 1) : s[p + i] \in C

\* (?:script|rc|gcs_delocalization\.sh|gcs_localization\.sh|gcs_transfer\.sh|
\*    stdout|stderr|pipelines-logs/action/\d+/(?:stderr|stdout))
MatchLeaf(s, p) ==
    \/ \E lit \in {Str_script, Str_rc, Str_gcs_delocalization, Str_gcs_localization,
                   Str_gcs_transfer, Str_stdout, Str_stderr} : LitAt(s, p, lit)
    \/ /\ LitAt(s, p, Str_pipelines_action)
       /\ \E n \in 1..Len(s) :
            /\ ClassAt(s, p + Len(Str_pipelines_action), n, Digit)
            /\ LitAt(s, p + Len(Str_pipelines_action) + n, <<"/">>)
            /\ \/ LitAt(s, p + Len(Str_pipelines_action) + n + 1, Str_stderr)
               \/ LitAt(s, p + Len(Str_pipelines_action) + n + 1, Str_stdout)

\* /shard-\d{1,5}/ and the leaf
MatchShard(s, p) ==
    /\ LitAt(s, p, Str_shard)
    /\ \E n \in 1..5 :
         /\ ClassAt(s, p + Len(Str_shard), n, Digit)
         /\ LitAt(s, p + Len(Str_shard) + n, <<"/">>)
         /\ MatchLeaf(s, p + Len(Str_shard) + n + 1)

\* /call-[\w_\-]+ and what follows
MatchCall(s, p) ==
    /\ LitAt(s, p, Str_call)
    /\ \E n \in 1..Len(s) :
         /\ ClassAt(s, p + Len(Str_call), n, CallChar)
         /\ MatchShard(s, p + Len(Str_call) + n)

\* [0-9a-fA-F]{8}-[0-9a-fA-F]{4}-[0-9a-fA-F]{4}-[0-9a-fA-F]{4}-[0-9a-fA-F]{12}
\* and what follows: a match of the whole pattern starting at position p
MatchAt(s, p) ==
    /\ ClassAt(s, p, 8, HexDigit)
    /\ LitAt(s, p + 8, <<"-">>)
    /\ ClassAt(s, p + 9, 4, HexDigit)
    /\ LitAt(s, p + 13, <<"-">>)
    /\ ClassAt(s, p + 14, 4, HexDigit)
    /\ LitAt(s, p + 18, <<"-">>)
    /\ ClassAt(s, p + 19, 4, HexDigit)
    /\ LitAt(s, p + 23, <<"-">>)
    /\ ClassAt(s, p + 24, 12, HexDigit)
    /\ MatchCall(s, p + 36)

\* RE.is_match(name): the pattern matches somewhere in name
RE_is_match(name) == \E p \in 1..Len(name) : MatchAt(name, p)

(***************************************************************************)
(* filter_objects: the objects whose name matches, in input order.         *)
(***************************************************************************)
\* mutant of filter_objects: nothing is filtered out
filter_objects_keep_all(items) == items

\* mutant of filter_objects: the kept objects come out in reverse order
RECURSIVE filter_objects_reversed(_)
filter_objects_reversed(items) ==
    IF items = <<>> THEN <<>>
    ELSE IF RE_is_match(Head(items).name)
         THEN filter_objects_reversed(Tail(items)) \o <<Head(items)>>
         ELSE filter_objects_reversed(Tail(items))

RECURSIVE filter_objects(_)
filter_objects(items) ==
    IF items = <<>> THEN <<>>
    ELSE IF RE_is_match(Head(items).name)
         THEN <<Head(items)>> \o filter_objects(Tail(items))
         ELSE filter_objects(Tail(items))

(***************************************************************************)
(* The storage backend, as main and the tasks see it.                      *)
(***************************************************************************)
\* object names the bucket may hold under the prefix
Key_script ==
    Str_my_folder \o Str_uuid \o Str_call \o <<"f","o","o","b","a","r">> \o
    Str_shard \o <<"4","2","/">> \o Str_script
Key_bam ==
    Str_my_folder \o Str_uuid \o Str_call \o <<"f","o","o","b","a","r">> \o
    Str_shard \o <<"4","2","/">> \o Str_bam
Key_action_stderr ==
    Str_my_folder \o Str_uuid \o Str_call \o <<"f","o","o","b","a","r">> \o
    Str_shard \o <<"4","2","/">> \o Str_pipelines_action \o <<"1","/">> \o Str_stderr
Keys == {Key_script, Key_bam, Key_action_stderr}

Object(b, n) == [bucket |-> b, name |-> n]

\* the sequences of at most n distinct elements of S
DistinctSeqs(S, n) ==
    UNION {{s \in [1..k -> S] : \A i, j \in 1..k : i # j => s[i] # s[j]} : k \in 0..n}

\* the page a list_objects request with page_token tok asks for
PageOf(tok) == IF tok = None THEN 1 ELSE tok[1] + 1

\* what list_objects may answer to a request for bucket b with page_token tok:
\* an error, or a page of objects not listed before, with a continuation token
\* (the page's own index) on every page but the last
ListResponses(b, tok) ==
    {Err("list_objects")} \cup
    {Ok([items |-> it, next_page_token |-> nt]) :
        it \in {None} \cup
               {Some(s) : s \in DistinctSeqs({Object(b, n) : n \in Keys} \ listed,
                                             MaxObjects - Cardinality(listed))},
        nt \in {None} \cup
               (IF PageOf(tok) < MaxPages THEN {Some(PageOf(tok))} ELSE {})}

(***************************************************************************)
(* main.                                                                   *)
(***************************************************************************)
Path_ok == Str_gs \o Str_my_bucket \o <<"/">> \o Str_my_folder
Path_no_prefix == Str_my_bucket \o <<"/">> \o Str_my_folder
Path_no_folder == Str_gs \o Str_my_bucket
RunPaths == {Path_ok, Path_no_prefix, Path_no_folder}

\* tokio::spawn(handle_removal(items, client, dry_run)): the task, not yet polled
NewTask(page, items) ==
    [page |-> page, items |-> items, pc |-> "spawned", futures |-> <<>>, ret |-> None]

Init ==
    /\ dry_run \in BOOLEAN
    /\ path \in RunPaths
    /\ pc = "get_client"
    /\ gs_path = None
    /\ res = None
    /\ exit_code = None
    /\ err = None
    /\ tasks = <<>>
    /\ bucket_checks = 0
    /\ list_calls = <<>>
    /\ served = <<>>
    /\ listed = {}
    /\ delete_requests = {}
    /\ printed = <<>>
    /\ arg = None
    /\ ret = None

\* mutant of ReturnErr: the error is reported but main returns Ok(())
ReturnErr_status_zero(e) ==
    /\ pc' = "returned"
    /\ exit_code' = Some(0)
    /\ err' = Some(e)

\* main returns Err(e) through `?`: the process reports it and exits non-zero
ReturnErr(e) ==
    /\ pc' = "returned"
    /\ exit_code' = Some(1)
    /\ err' = Some(e)

\* line 125: get_client().await?
GetClient ==
    /\ pc = "get_client"
    /\ \/ /\ pc' = "parse"
          /\ UNCHANGED <<exit_code, err>>
       \/ ReturnErr("get_client")
    /\ UNCHANGED <<dry_run, path, gs_path, res, tasks, bucket_checks, list_calls,
                   served, listed, delete_requests, printed, arg, ret>>

\* mutant of Parse: a malformed locator is reported and the whole string is taken
\* as the bucket
Parse_lenient ==
    /\ pc = "parse"
    /\ LET r == parse_gsutil_path(path)
       IN  IF r.ok
           THEN /\ gs_path' = Some(r.val)
                /\ UNCHANGED err
           ELSE /\ gs_path' = Some([bucket |-> path, folder |-> <<>>])
                /\ err' = Some(r.err)
    /\ pc' = "get_bucket"
    /\ UNCHANGED <<dry_run, path, res, exit_code, tasks, bucket_checks, list_calls,
                   served, listed, delete_requests, printed, arg, ret>>

\* line 127: parse_gsutil_path(&args.bucket)?
Parse ==
    /\ pc = "parse"
    /\ LET r == parse_gsutil_path(path)
       IN  IF r.ok
           THEN /\ gs_path' = Some(r.val)
                /\ pc' = "get_bucket"
                /\ UNCHANGED <<exit_code, err>>
           ELSE /\ ReturnErr(r.err)
                /\ UNCHANGED gs_path
    /\ UNCHANGED <<dry_run, path, res, tasks, bucket_checks, list_calls, served,
                   listed, delete_requests, printed, arg, ret>>

\* mutant of GetBucket: the outcome of the check is reported but not propagated
GetBucket_unchecked ==
    /\ pc = "get_bucket"
    /\ bucket_checks' = bucket_checks + 1
    /\ pc' = "list_first"
    /\ \/ UNCHANGED err
       \/ err' = Some("get_bucket")
    /\ UNCHANGED <<dry_run, path, gs_path, res, exit_code, tasks, list_calls, served,
                   listed, delete_requests, printed, arg, ret>>

\* lines 132-137: client.get_bucket(..).await?
GetBucket ==
    /\ pc = "get_bucket"
    /\ bucket_checks' = bucket_checks + 1
    /\ \/ /\ pc' = "list_first"
          /\ UNCHANGED <<exit_code, err>>
       \/ ReturnErr("get_bucket")
    /\ UNCHANGED <<dry_run, path, gs_path, res, tasks, list_calls, served, listed,
                   delete_requests, printed, arg, ret>>

\* one list_objects(..).await? with page_token tok, and on success the
\* tokio::spawn of handle_removal on the page's items
ListAndSpawn(tok) ==
    /\ list_calls' = Append(list_calls, tok)
    /\ \E r \in ListResponses(gs_path[1].bucket, tok) :
         IF r.ok
         THEN /\ res' = Some(r.val)
              /\ served' = Append(served, PageOf(tok))
              /\ listed' = listed \cup
                    (IF r.val.items = None THEN {}
                     ELSE {r.val.items[1][i] : i \in 1..Len(r.val.items[1])})
              /\ tasks' = Append(tasks, NewTask(PageOf(tok), r.val.items))
              /\ pc' = "loop"
              /\ UNCHANGED <<exit_code, err>>
         ELSE /\ ReturnErr(r.err)
              /\ UNCHANGED <<res, served, listed, tasks>>
    /\ UNCHANGED <<dry_run, path, gs_path, bucket_checks, delete_requests, printed,
                   arg, ret>>

\* lines 140-152: the first request, with no page token
ListFirst ==
    /\ pc = "list_first"
    /\ ListAndSpawn(None)

\* mutant of ListNext: the request carries no page_token
ListNext_no_token ==
    /\ pc = "loop"
    /\ res[1].next_page_token # None
    /\ ListAndSpawn(None)

\* mutant of ListNext: the loop awaits the previous page's task before the next
\* request
ListNext_after_page_done ==
    /\ pc = "loop"
    /\ res[1].next_page_token # None
    /\ tasks[Len(tasks)].pc = "done"
    /\ ListAndSpawn(Some(res[1].next_page_token[1]))

\* mutant of ListNext: a page without items ends the pagination
ListNext_stop_on_empty ==
    /\ pc = "loop"
    /\ res[1].next_page_token # None
    /\ res[1].items # None
    /\ res[1].items[1] # <<>>
    /\ ListAndSpawn(Some(res[1].next_page_token[1]))

\* lines 154-170: one iteration of `while let Some(ref page) = res.next_page_token`
ListNext ==
    /\ pc = "loop"
    /\ res[1].next_page_token # None
    /\ ListAndSpawn(Some(res[1].next_page_token[1]))

\* mutant of MainReturn: main returns an error when some delete request has failed
MainReturn_failing_on_delete_error ==
    /\ pc = "loop"
    /\ res[1].next_page_token = None
    /\ pc' = "returned"
    /\ IF \E k \in 1..Len(tasks) : \E i \in 1..Len(tasks[k].futures) :
              tasks[k].futures[i].st = "failed"
       THEN /\ exit_code' = Some(1)
            /\ err' = Some("delete_object")
       ELSE /\ exit_code' = Some(0)
            /\ UNCHANGED err
    /\ UNCHANGED <<dry_run, path, gs_path, res, tasks, bucket_checks, list_calls,
                   served, listed, delete_requests, printed, arg, ret>>

\* lines 154, 172: the loop ends on a response with no token and main returns Ok(())
MainReturn ==
    /\ pc = "loop"
    /\ res[1].next_page_token = None
    /\ pc' = "returned"
    /\ exit_code' = Some(0)
    /\ UNCHANGED <<dry_run, path, gs_path, res, err, tasks, bucket_checks, list_calls,
                   served, listed, delete_requests, printed, arg, ret>>

\* mutant of Exit: the process exits only once every spawned task has finished
Exit_after_tasks ==
    /\ pc = "returned"
    /\ \A k \in 1..Len(tasks) : tasks[k].pc = "done"
    /\ pc' = "exited"
    /\ UNCHANGED <<dry_run, path, gs_path, res, exit_code, err, tasks, bucket_checks,
                   list_calls, served, listed, delete_requests, printed, arg, ret>>

\* #[tokio::main]: once main has returned the runtime is dropped and the process
\* exits; tasks that have not finished are cancelled
Exit ==
    /\ pc = "returned"
    /\ pc' = "exited"
    /\ UNCHANGED <<dry_run, path, gs_path, res, exit_code, err, tasks, bucket_checks,
                   list_calls, served, listed, delete_requests, printed, arg, ret>>

(***************************************************************************)
(* The spawned tasks: handle_removal, remove_objects and its delete tasks. *)
(***************************************************************************)
\* remove_objects lines 66-81: one spawned delete task per item, none polled yet
SpawnDeletes(items) ==
    [i \in 1..Len(items) |-> [item |-> items[i], st |-> "spawned", requests |-> 0]]

\* the dry-run report lines of handle_removal lines 112-114
ReportLines(objs) ==
    [i \in 1..Len(objs) |-> Str_gs \o objs[i].bucket \o <<"/">> \o objs[i].name]

\* mutant of HandleRemoval: dry_run is not consulted, the matches are removed
HandleRemoval_ignoring_dry_run(k) ==
    /\ pc # "exited"
    /\ k \in 1..Len(tasks)
    /\ tasks[k].pc = "spawned"
    /\ IF tasks[k].items = None
       THEN tasks' = [tasks EXCEPT ![k].pc = "done", ![k].ret = Some("Ok")]
       ELSE LET filtered_objects == filter_objects(tasks[k].items[1])
            IN  IF filtered_objects = <<>>
                THEN tasks' = [tasks EXCEPT ![k].pc = "done", ![k].ret = Some("Ok")]
                ELSE tasks' = [tasks EXCEPT
                                 ![k].pc = "joining",
                                 ![k].futures = SpawnDeletes(filtered_objects)]
    /\ UNCHANGED <<dry_run, path, pc, gs_path, res, exit_code, err, bucket_checks,
                   list_calls, served, listed, delete_requests, printed, arg, ret>>

\* handle_removal up to its first suspension: with no items it returns; otherwise
\* it filters, and either prints the matches (dry run) or calls remove_objects,
\* which spawns the delete tasks and waits in join_all
HandleRemoval(k) ==
    /\ pc # "exited"
    /\ k \in 1..Len(tasks)
    /\ tasks[k].pc = "spawned"
    /\ IF tasks[k].items = None
       THEN /\ tasks' = [tasks EXCEPT ![k].pc = "done", ![k].ret = Some("Ok")]
            /\ UNCHANGED printed
       ELSE LET filtered_objects == filter_objects(tasks[k].items[1])
            IN  IF dry_run
                THEN /\ printed' = printed \o ReportLines(filtered_objects)
                     /\ tasks' = [tasks EXCEPT ![k].pc = "done", ![k].ret = Some("Ok")]
                ELSE /\ UNCHANGED printed
                     /\ IF filtered_objects = <<>>
                        THEN tasks' = [tasks EXCEPT ![k].pc = "done",
                                                    ![k].ret = Some("Ok")]
                        ELSE tasks' = [tasks EXCEPT
                                         ![k].pc = "joining",
                                         ![k].futures = SpawnDeletes(filtered_objects)]
    /\ UNCHANGED <<dry_run, path, pc, gs_path, res, exit_code, err, bucket_checks,
                   list_calls, served, listed, delete_requests, arg, ret>>

\* mutant of DeleteSend: the deletes run one after the other and stop at the first
\* failure (a sequential loop with `?`)
DeleteSend_until_first_failure(k, i) ==
    /\ pc # "exited"
    /\ k \in 1..Len(tasks)
    /\ i \in 1..Len(tasks[k].futures)
    /\ tasks[k].futures[i].st = "spawned"
    /\ \A j \in 1..(i - 1) : tasks[k].futures[j].st = "ok"
    /\ tasks' = [tasks EXCEPT ![k].futures[i].st = "inflight",
                              ![k].futures[i].requests = @ + 1]
    /\ delete_requests' = delete_requests \cup
          {[bucket |-> tasks[k].futures[i].item.bucket,
            object |-> tasks[k].futures[i].item.name]}
    /\ UNCHANGED <<dry_run, path, pc, gs_path, res, exit_code, err, bucket_checks,
                   list_calls, served, listed, printed, arg, ret>>

\* lines 70-76: delete task i of task k issues its DeleteObjectRequest
DeleteSend(k, i) ==
    /\ pc # "exited"
    /\ k \in 1..Len(tasks)
    /\ i \in 1..Len(tasks[k].futures)
    /\ tasks[k].futures[i].st = "spawned"
    /\ tasks' = [tasks EXCEPT ![k].futures[i].st = "inflight",
                              ![k].futures[i].requests = @ + 1]
    /\ delete_requests' = delete_requests \cup
          {[bucket |-> tasks[k].futures[i].item.bucket,
            object |-> tasks[k].futures[i].item.name]}
    /\ UNCHANGED <<dry_run, path, pc, gs_path, res, exit_code, err, bucket_checks,
                   list_calls, served, listed, printed, arg, ret>>

\* mutant of DeleteDone: a failed delete is scheduled again
DeleteDone_retrying(k, i) ==
    /\ pc # "exited"
    /\ k \in 1..Len(tasks)
    /\ i \in 1..Len(tasks[k].futures)
    /\ tasks[k].futures[i].st = "inflight"
    /\ \E outcome \in {"ok", "spawned"} :
         tasks' = [tasks EXCEPT ![k].futures[i].st = outcome]
    /\ UNCHANGED <<dry_run, path, pc, gs_path, res, exit_code, err, bucket_checks,
                   list_calls, served, listed, delete_requests, printed, arg, ret>>

\* lines 76-79: the delete request of task i succeeds, or fails and is logged
DeleteDone(k, i) ==
    /\ pc # "exited"
    /\ k \in 1..Len(tasks)
    /\ i \in 1..Len(tasks[k].futures)
    /\ tasks[k].futures[i].st = "inflight"
    /\ \E outcome \in {"ok", "failed"} :
         tasks' = [tasks EXCEPT ![k].futures[i].st = outcome]
    /\ UNCHANGED <<dry_run, path, pc, gs_path, res, exit_code, err, bucket_checks,
                   list_calls, served, listed, delete_requests, printed, arg, ret>>

\* mutant of JoinAll: remove_objects returns as soon as one delete task has ended
JoinAll_first_completed(k) ==
    /\ pc # "exited"
    /\ k \in 1..Len(tasks)
    /\ tasks[k].pc = "joining"
    /\ \E i \in 1..Len(tasks[k].futures) : tasks[k].futures[i].st \in {"ok", "failed"}
    /\ tasks' = [tasks EXCEPT ![k].pc = "done", ![k].ret = Some("Ok")]
    /\ UNCHANGED <<dry_run, path, pc, gs_path, res, exit_code, err, bucket_checks,
                   list_calls, served, listed, delete_requests, printed, arg, ret>>

\* lines 83-85 and 116-119: join_all completes once every delete task has ended;
\* remove_objects and then handle_removal return Ok(())
JoinAll(k) ==
    /\ pc # "exited"
    /\ k \in 1..Len(tasks)
    /\ tasks[k].pc = "joining"
    /\ \A i \in 1..Len(tasks[k].futures) : tasks[k].futures[i].st \in {"ok", "failed"}
    /\ tasks' = [tasks EXCEPT ![k].pc = "done", ![k].ret = Some("Ok")]
    /\ UNCHANGED <<dry_run, path, pc, gs_path, res, exit_code, err, bucket_checks,
                   list_calls, served, listed, delete_requests, printed, arg, ret>>

Next ==
    \/ GetClient
    \/ Parse
    \/ GetBucket
    \/ ListFirst
    \/ ListNext
    \/ MainReturn
    \/ Exit
    \/ \E k \in 1..MaxPages : HandleRemoval(k)
    \/ \E k \in 1..MaxPages, i \in 1..MaxObjects : DeleteSend(k, i)
    \/ \E k \in 1..MaxPages, i \in 1..MaxObjects : DeleteDone(k, i)
    \/ \E k \in 1..MaxPages : JoinAll(k)

\* the steps of main itself
MainStep ==
    GetClient \/ Parse \/ GetBucket \/ ListFirst \/ ListNext \/ MainReturn

Spec == Init /\ [][Next]_vars

\* block_on(main) polls main whenever it can proceed, and every request main
\* awaits is answered
SpecFair == Spec /\ WF_vars(MainStep)

(***************************************************************************)
(* The unit tests (mod test): each calls one function on an argument and   *)
(* looks at what it returns.  main is not running: pc = "test".            *)
(***************************************************************************)
Idle ==
    /\ dry_run = FALSE
    /\ path = <<>>
    /\ pc = "test"
    /\ gs_path = None
    /\ res = None
    /\ exit_code = None
    /\ err = None
    /\ tasks = <<>>
    /\ bucket_checks = 0
    /\ list_calls = <<>>
    /\ served = <<>>
    /\ listed = {}
    /\ delete_requests = {}
    /\ printed = <<>>

\* the sequences over S of length at most n
SeqsUpTo(S, n) == UNION {[1..k -> S] : k \in 0..n}

\* arguments of the parser tests: the literals of the three tests, and every short
\* remainder after a well-formed or malformed scheme
Path_obj == Path_ok \o <<"m","y","_","o","b","j",".","t","x","t">>
SchemeVariants == {<<>>, Str_gs, <<"g","s",":","/">>, <<"g","s",":">>, <<"G","S",":","/","/">>, <<"s","3",":","/","/">>}
ParseInputs ==
    {Path_ok, Path_obj, Path_no_prefix, Path_no_folder} \cup
    {s \o r : s \in SchemeVariants, r \in SeqsUpTo({"a", "b", "/"}, MaxPathLen)}

InitParse ==
    /\ Idle
    /\ arg \in ParseInputs
    /\ ret = None

\* test_parse_gsutil_path*: parse_gsutil_path(arg)
TestParse ==
    /\ pc = "test"
    /\ ret = None
    /\ ret' = Some(parse_gsutil_path(arg))
    /\ UNCHANGED <<dry_run, path, pc, gs_path, res, exit_code, err, tasks,
                   bucket_checks, list_calls, served, listed, delete_requests,
                   printed, arg>>

SpecParse == InitParse /\ [][TestParse]_vars

\* arguments of the matcher: keys assembled from well-formed and malformed
\* prefixes, UUIDs, call segments, shard segments and leaves
Str_foobar == <<"f","o","o","b","a","r">>
KeyPrefixes == {<<>>, Str_my_folder, <<"a">>}
KeyUuids == {Str_uuid, <<"B","1","8","9","1","5","4","B","-","F","D","2","6","-","4","E","D","1","-","A","6","F","0","-","4","F","6","1","9","1","F","1","E","8","2","0">>,
             <<"g">> \o SubSeq(Str_uuid, 2, Len(Str_uuid)),
             SubSeq(Str_uuid, 2, Len(Str_uuid))}
KeyCalls == {Str_call \o Str_foobar, Str_call \o <<"a","_","b","-","1">>,
             Str_call, Str_call \o <<"a",".","b">>}
KeyShards == {Str_shard \o <<"4","2">>, Str_shard \o <<"1","2","3","4","5">>,
              Str_shard \o <<"1","2","3","4","5","6">>, Str_shard, Str_shard \o <<"4","x">>}
KeyLeaves ==
    {Str_script, Str_rc, Str_gcs_delocalization, Str_gcs_localization,
     Str_gcs_transfer, Str_stdout, Str_stderr,
     Str_pipelines_action \o <<"1","2","/">> \o Str_stdout,
     Str_pipelines_action \o <<"1","/">> \o Str_stderr,
     Str_pipelines_action \o <<"/">> \o Str_stdout,
     Str_pipelines_action \o <<"x","/">> \o Str_stdout,
     Str_pipelines_action \o <<"1","/">> \o Str_script,
     Str_bam,
     <<"s","c","r","i","p","t",".","b","a","k">>,
     <<"g","c","s","_","t","r","a","n","s","f","e","r","X","s","h">>,
     <<"s","t","d","o","u","t","/","p","a","r","t">>,
     <<"S","c","r","i","p","t">>}
Key_no_uuid_script ==
    Str_my_folder \o <<"c","a","l","l","-","f","o","o","b","a","r","/","s","h","a","r","d","-","4","2","/">> \o Str_script
Key_no_uuid_bam ==
    Str_my_folder \o <<"c","a","l","l","-","f","o","o","b","a","r","/","s","h","a","r","d","-","4","2","/">> \o Str_bam
MatchKeys ==
    Keys \cup {Key_no_uuid_script, Key_no_uuid_bam, <<>>} \cup
    {p \o u \o c \o s \o <<"/">> \o l :
        p \in KeyPrefixes, u \in KeyUuids, c \in KeyCalls, s \in KeyShards,
        l \in KeyLeaves}

InitMatch ==
    /\ Idle
    /\ arg \in MatchKeys
    /\ ret = None

\* RE.is_match(&obj.name), as filter_objects calls it on one name
TestMatch ==
    /\ pc = "test"
    /\ ret = None
    /\ ret' = Some(RE_is_match(arg))
    /\ UNCHANGED <<dry_run, path, pc, gs_path, res, exit_code, err, tasks,
                   bucket_checks, list_calls, served, listed, delete_requests,
                   printed, arg>>

SpecMatch == InitMatch /\ [][TestMatch]_vars

\* arguments of test_filter_objects: item lists over the test's four objects and
\* three more
Key_rc ==
    Str_uuid \o Str_call \o Str_foobar \o Str_shard \o <<"7","/">> \o Str_rc
FilterKeys ==
    {Key_script, Key_bam, Key_no_uuid_script, Key_no_uuid_bam, Key_action_stderr,
     Key_rc, Str_script}
FilterInputs == SeqsUpTo({Object(Str_my_bucket, n) : n \in FilterKeys}, MaxFilterLen)

InitFilter ==
    /\ Idle
    /\ arg \in FilterInputs
    /\ ret = None

\* test_filter_objects: filter_objects(items).await
TestFilter ==
    /\ pc = "test"
    /\ ret = None
    /\ ret' = Some(filter_objects(arg))
    /\ UNCHANGED <<dry_run, path, pc, gs_path, res, exit_code, err, tasks,
                   bucket_checks, list_calls, served, listed, delete_requests,
                   printed, arg>>

SpecFilter == InitFilter /\ [][TestFilter]_vars

(***************************************************************************)
(* Claims about the matcher and filter_objects.                            *)
(***************************************************************************)
\* the path segments of a key: its parts between "/" separators
RECURSIVE Segments(_)
Segments(s) ==
    LET i == FirstIndex(s, "/")
    IN  IF i = 0 THEN <<s>>
        ELSE <<SubSeq(s, 1, i - 1)>> \o Segments(SubSeq(s, i + 1, Len(s)))

AllIn(s, C) == \A i \in 1..Len(s) : s[i] \in C

\* a whole segment that is a canonical 8-4-4-4-12 hexadecimal UUID
IsUuidSegment(g) ==
    /\ Len(g) = 36
    /\ \A i \in 1..36 : IF i \in {9, 14, 19, 24} THEN g[i] = "-" ELSE g[i] \in HexDigit

\* a whole segment call-<token>, the token one or more word or dash characters
IsCallSegment(g) ==
    /\ Len(g) > 5
    /\ SubSeq(g, 1, 5) = <<"c","a","l","l","-">>
    /\ AllIn(SubSeq(g, 6, Len(g)), CallChar)

\* a whole segment shard-<1 to 5 digits>
IsShardSegment(g) ==
    /\ Len(g) \in 7..11
    /\ SubSeq(g, 1, 6) = <<"s","h","a","r","d","-">>
    /\ AllIn(SubSeq(g, 7, Len(g)), Digit)

\* the segments from position i on begin with a recognized leaf
IsLeafAt(segs, i) ==
    \/ /\ i <= Len(segs)
       /\ segs[i] \in {Str_script, Str_rc, Str_gcs_delocalization, Str_gcs_localization,
                       Str_gcs_transfer, Str_stdout, Str_stderr}
    \/ /\ i + 3 <= Len(segs)
       /\ segs[i] = Str_pipelines_logs
       /\ segs[i + 1] = Str_action
       /\ segs[i + 2] # <<>>
       /\ AllIn(segs[i + 2], Digit)
       /\ segs[i + 3] \in {Str_stdout, Str_stderr}

\* the key contains, as whole path segments in sequence, UUID, call, shard, leaf
SegmentShape(key) ==
    LET segs == Segments(key)
    IN  \E i \in 1..Len(segs) :
            /\ i + 3 <= Len(segs)
            /\ IsUuidSegment(segs[i])
            /\ IsCallSegment(segs[i + 1])
            /\ IsShardSegment(segs[i + 2])
            /\ IsLeafAt(segs, i + 3)

\* C5: for every object key, RE.is_match returns true if and only if the key
\* contains, as a sequence of whole path segments, a canonical UUID, call-<token>,
\* shard-<1 to 5 digits> and a recognized leaf name.
C5_MatchIffSegmentShape ==
    ret # None => (ret[1] <=> SegmentShape(arg))

\* the direction of C5 that the pattern does give: every key of the segment shape
\* is matched
C5_SegmentShapeIsMatched ==
    (ret # None /\ SegmentShape(arg)) => ret[1]

\* C6: filter_objects returns exactly the input objects whose name matches the
\* pattern, unmodified and in input order, and drops the others; the key with
\* UUID/call/shard segments and leaf script is kept, the same key with leaf
\* my_fake_other_file.bam is dropped, and the keys lacking the UUID are dropped.
C6_FilterKeepsExactlyMatches ==
    ret # None =>
        /\ ret[1] = SelectSeq(arg, LAMBDA o : RE_is_match(o.name))
        /\ \A i \in 1..Len(arg) :
              /\ arg[i].name = Key_script => \E j \in 1..Len(ret[1]) : ret[1][j] = arg[i]
              /\ arg[i].name \in {Key_bam, Key_no_uuid_script, Key_no_uuid_bam} =>
                    \A j \in 1..Len(ret[1]) : ret[1][j] # arg[i]
        /\ Len(ret[1]) = Cardinality({i \in 1..Len(arg) :
                                         arg[i].name \notin {Key_bam, Key_no_uuid_script,
                                                             Key_no_uuid_bam, Str_script}})

\* the first list of test_filter_objects has been filtered down to its script object
C6_Witness ==
    /\ ret # None
    /\ arg = <<Object(Str_my_bucket, Key_script), Object(Str_my_bucket, Key_bam)>>
    /\ ret[1] = <<Object(Str_my_bucket, Key_script)>>

(***************************************************************************)
(* Claims about parse_gsutil_path.                                         *)
(***************************************************************************)
\* the locator is gs:// followed by a bucket of n characters, none of them "/",
\* a "/", and a non-empty folder
IsBucketSlashFolder(p, n) ==
    /\ Len(p) >= 5 + n + 2
    /\ SubSeq(p, 1, 5) = Str_gs
    /\ \A i \in 6..(5 + n) : p[i] # "/"
    /\ p[5 + n + 1] = "/"

\* C7: for every locator gs://B/F with non-empty F and no "/" in B, parsing
\* succeeds with bucket = B and folder = F verbatim (split at the first "/" only).
C7_ParseYieldsBucketAndFolder ==
    ret # None =>
        \A n \in 0..Len(arg) :
            IsBucketSlashFolder(arg, n) =>
                ret[1] = Ok([bucket |-> SubSeq(arg, 6, 5 + n),
                             folder |-> SubSeq(arg, 5 + n + 2, Len(arg))])

\* gs://my-bucket/my_folder/my_obj.txt has been parsed: the folder keeps its inner
\* separator
C7_Witness ==
    /\ ret # None
    /\ arg = Path_obj
    /\ IsBucketSlashFolder(arg, Len(Str_my_bucket))
    /\ ret[1].ok
    /\ ret[1].val.bucket = Str_my_bucket
    /\ ret[1].val.folder = SubSeq(Path_obj, 16, Len(Path_obj))

\* C8: parsing a string that does not start with gs:// fails (the no-prefix
\* error) and yields no locator.
C8_NoPrefixFails ==
    (ret # None /\ ~(Len(arg) >= 5 /\ SubSeq(arg, 1, 5) = Str_gs)) =>
        ret[1] = Err(ErrNoPrefix)

\* my-bucket/my_folder/ has been parsed and rejected
C8_Witness ==
    /\ ret # None
    /\ arg = Path_no_prefix
    /\ ~ret[1].ok

\* C9: parsing gs://B with no "/" after the scheme fails (the no-folder error)
\* and yields no locator.
C9_NoFolderFails ==
    (/\ ret # None
     /\ Len(arg) >= 5
     /\ SubSeq(arg, 1, 5) = Str_gs
     /\ \A i \in 6..Len(arg) : arg[i] # "/") =>
        ret[1] = Err(ErrNoFolder)

\* gs://my-bucket has been parsed and rejected
C9_Witness ==
    /\ ret # None
    /\ arg = Path_no_folder
    /\ ~ret[1].ok

(***************************************************************************)
(* Claims about a run of main and its tasks.                               *)
(***************************************************************************)
\* C1: every delete request issued is for an object returned in some fetched
\* listing page of this run, and its name matches the pattern.
C1_DeletesOnlyListedMatches ==
    \A r \in delete_requests :
        /\ RE_is_match(r.object)
        /\ \E o \in listed : o.bucket = r.bucket /\ o.name = r.object

\* a page listing a matching and a non-matching object has been processed and a
\* delete request issued
C1_Witness ==
    /\ delete_requests # {}
    /\ \E o \in listed : ~RE_is_match(o.name)
    /\ \A k \in 1..Len(tasks) : tasks[k].pc = "done"
    /\ tasks # <<>>

\* C2: in a dry run no delete request is issued, and no delete task is spawned.
C2_DryRunIssuesNoDelete ==
    dry_run =>
        /\ delete_requests = {}
        /\ \A k \in 1..Len(tasks) : tasks[k].futures = <<>>

\* a dry run over two pages has reported two matches and exited
C2_Witness ==
    /\ dry_run
    /\ Len(tasks) = 2
    /\ \A k \in 1..Len(tasks) : tasks[k].pc = "done"
    /\ Len(printed) = 2
    /\ pc = "exited"

\* the safety part of C3: the first list call carries no token, each later one the
\* token the preceding call returned; the calls return pages 1, 2, ... in order,
\* each once; and main returns Ok only after a page with no token, having issued
\* one call and spawned one task per page
C3_OneCallPerPage ==
    /\ \A i \in 1..Len(list_calls) :
          list_calls[i] = IF i = 1 THEN None ELSE Some(served[i - 1])
    /\ \A i \in 1..Len(served) : served[i] = i
    /\ Len(served) <= Len(list_calls)
    /\ Len(list_calls) <= Len(served) + 1
    /\ Len(tasks) = Len(served)
    /\ \A k \in 1..Len(tasks) : tasks[k].page = served[k]
    /\ exit_code = Some(0) =>
          /\ res # None
          /\ res[1].next_page_token = None
          /\ Len(list_calls) = Len(served)
    /\ (pc = "loop" /\ res[1].next_page_token # None) =>
          res[1].next_page_token = Some(served[Len(served)])

\* C3: pagination terminates: with no listing error the loop issues exactly one
\* list call per page (the first with no token, each later one with the token of
\* the preceding call), visits every page once and stops after the page with no
\* token; main always returns.
C3_PaginationTerminates ==
    /\ []C3_OneCallPerPage
    /\ <>(pc \in {"returned", "exited"})

\* main has returned Ok after two pages, fetched with no token and then token 1
C3_Witness ==
    /\ exit_code = Some(0)
    /\ served = <<1, 2>>
    /\ list_calls = <<None, Some(1)>>

\* C4: a failed delete does not prevent the sibling deletes of its batch from
\* being attempted: a delete task that has not sent its request can send it
\* whatever the outcome of its siblings, and when remove_objects returns every
\* object of the batch has been the subject of a delete request.
C4_FailureDoesNotStopSiblings ==
    \A k \in 1..Len(tasks) :
        /\ \A i \in 1..Len(tasks[k].futures) :
              (pc # "exited" /\ tasks[k].futures[i].st = "spawned") =>
                  ENABLED DeleteSend(k, i)
        /\ tasks[k].pc = "done" =>
              \A i \in 1..Len(tasks[k].futures) : tasks[k].futures[i].requests = 1

\* a batch of two has been removed: the first delete failed, the second was still
\* requested and succeeded
C4_Witness ==
    \E k \in 1..Len(tasks) :
        /\ tasks[k].pc = "done"
        /\ Len(tasks[k].futures) = 2
        /\ tasks[k].futures[1].st = "failed"
        /\ tasks[k].futures[2].st = "ok"
        /\ tasks[k].futures[2].requests = 1

\* a list_objects call has failed
ListingFailed == err = Some("list_objects")

\* C10: when a listing call fails the run aborts with a non-zero status: no task
\* is dispatched for the failed page, no list call follows the failed one, and the
\* delete requests already issued stay issued.
C10_ListingFailureAborts ==
    /\ [](ListingFailed =>
            /\ pc \in {"returned", "exited"}
            /\ exit_code = Some(1)
            /\ Len(served) = Len(list_calls) - 1
            /\ Len(tasks) = Len(list_calls) - 1)
    /\ [][ListingFailed =>
            /\ list_calls' = list_calls
            /\ Len(tasks') = Len(tasks)
            /\ exit_code' = exit_code]_vars
    /\ [][delete_requests \subseteq delete_requests']_vars

\* the second list call failed after a delete request for the first page was issued
C10_Witness ==
    /\ ListingFailed
    /\ Len(list_calls) = 2
    /\ delete_requests # {}

\* C11: when locator parsing, the bucket check and every listing call succeed, the
\* run exits with status zero however many delete requests failed: a step of a
\* task never changes main's position, exit status or error, and a finished task
\* has returned Ok.
C11_DeleteFailuresDoNotChangeExit ==
    /\ []((/\ pc \in {"returned", "exited"}
           /\ list_calls # <<>>
           /\ Len(served) = Len(list_calls)) =>
              /\ exit_code = Some(0)
              /\ err = None)
    /\ [](\A k \in 1..Len(tasks) : tasks[k].pc = "done" => tasks[k].ret = Some("Ok"))
    /\ [][(tasks' # tasks /\ Len(tasks') = Len(tasks)) =>
              UNCHANGED <<pc, exit_code, err>>]_vars

\* the run has exited with status zero although a delete request failed
C11_Witness ==
    /\ pc = "exited"
    /\ exit_code = Some(0)
    /\ \E k \in 1..Len(tasks) : \E i \in 1..Len(tasks[k].futures) :
          tasks[k].futures[i].st = "failed"

\* the bucket-existence check has failed
BucketCheckFailed == err = Some("get_bucket")

\* C12: the bucket-existence check is issued before any listing call, and if it
\* fails the run aborts with a non-zero status without any list call, task or
\* delete request.
C12_BucketCheckFirstAndFatal ==
    /\ list_calls # <<>> => (bucket_checks = 1 /\ ~BucketCheckFailed)
    /\ BucketCheckFailed =>
          /\ pc \in {"returned", "exited"}
          /\ exit_code = Some(1)
          /\ bucket_checks = 1
          /\ list_calls = <<>>
          /\ tasks = <<>>
          /\ delete_requests = {}

\* the bucket check failed and the process has exited
C12_Witness ==
    /\ BucketCheckFailed
    /\ pc = "exited"
    /\ exit_code = Some(1)

\* parse_gsutil_path has failed
ParseFailed == err \in {Some(ErrNoPrefix), Some(ErrNoFolder)}

\* C13: a locator-parse failure aborts the run before any backend call: no bucket
\* check, no list call and no delete request is ever issued.
C13_ParseFailureBeforeBackend ==
    ParseFailed =>
        /\ pc \in {"returned", "exited"}
        /\ exit_code = Some(1)
        /\ gs_path = None
        /\ bucket_checks = 0
        /\ list_calls = <<>>
        /\ tasks = <<>>
        /\ delete_requests = {}

\* gs://my-bucket was given: the parse failed and the process has exited
C13_Witness ==
    /\ path = Path_no_folder
    /\ ParseFailed
    /\ pc = "exited"

\* C14: the run does not wait for the dispatched tasks before terminating: main
\* returns as soon as a response carries no token and the process exits as soon
\* as main has returned, whatever the tasks have done, and nothing runs after the
\* exit; so a run can exit with status zero with a matched object never requested
\* for deletion (C14_Witness).
C14_ExitDoesNotWaitForTasks ==
    /\ (pc = "loop" /\ res[1].next_page_token = None) => ENABLED MainReturn
    /\ pc = "returned" => ENABLED Exit
    /\ pc = "exited" => ~ENABLED Next

\* a non-dry run has exited with status zero while a task is unfinished and a
\* listed, matching object has had no delete request
C14_Witness ==
    /\ ~dry_run
    /\ pc = "exited"
    /\ exit_code = Some(0)
    /\ \E k \in 1..Len(tasks) :
          /\ tasks[k].pc # "done"
          /\ tasks[k].items # None
          /\ \E i \in 1..Len(tasks[k].items[1]) :
                /\ RE_is_match(tasks[k].items[1][i].name)
                /\ [bucket |-> tasks[k].items[1][i].bucket,
                    object |-> tasks[k].items[1][i].name] \notin delete_requests

\* C15: pagination is not blocked by deletion: once a response with a token has
\* been received and its task spawned, the next list call can be issued whether
\* or not the tasks of earlier pages have filtered, sent or finished their deletes.
C15_ListingNotBlockedByDeletes ==
    (pc = "loop" /\ res[1].next_page_token # None) =>
        /\ Len(tasks) = Len(served)
        /\ ENABLED ListNext

\* page 2 has been fetched while a delete of page 1 is in flight
C15_Witness ==
    /\ Len(served) = 2
    /\ Len(tasks) = 2
    /\ tasks[2].pc = "spawned"
    /\ tasks[1].pc = "joining"
    /\ \E i \in 1..Len(tasks[1].futures) : tasks[1].futures[i].st = "inflight"

\* the pages are fetched in listing order, one call at a time, and their tasks are
\* spawned in that order
FetchedInListingOrder ==
    /\ \A i \in 1..Len(served) : served[i] = i
    /\ Len(served) <= Len(list_calls)
    /\ Len(list_calls) <= Len(served) + 1
    /\ Len(tasks) = Len(served)
    /\ \A k \in 1..Len(tasks) : tasks[k].page = k

\* handle_removal of task k has run its filter step (it had items to filter)
Filtered(k) == tasks[k].items # None /\ tasks[k].pc # "spawned"

\* C16 as stated: pages are fetched and filtered in listing order: the list call
\* for page k+1 follows the response for page k, and the filter step of page k
\* happens before the filter step of page k+1.
C16_FetchedAndFilteredInOrder ==
    /\ FetchedInListingOrder
    /\ \A j, k \in 1..Len(tasks) :
          (j < k /\ tasks[j].items # None /\ Filtered(k)) => Filtered(j)

\* C16 as amended: pages are fetched in listing order and their tasks are spawned
\* in that order (each task holds the items of its own page); the filter steps and
\* the delete requests of different pages are not ordered.
C16_FetchedAndSpawnedInOrder ==
    /\ FetchedInListingOrder
    /\ \A k \in 1..Len(tasks) :
          /\ tasks[k].items # None =>
                \A i \in 1..Len(tasks[k].items[1]) : tasks[k].items[1][i] \in listed
          /\ \A i \in 1..Len(tasks[k].futures) :
                \E n \in 1..Len(tasks[k].items[1]) :
                    tasks[k].futures[i].item = tasks[k].items[1][n]
    /\ (pc = "loop" /\ res # None) => tasks[Len(tasks)].items = res[1].items

\* page 2 has been filtered and a delete of its object requested while page 1,
\* which lists a matching object, has not been filtered yet
C16_Witness ==
    /\ Len(tasks) = 2
    /\ tasks[1].pc = "spawned"
    /\ tasks[1].items # None
    /\ \E i \in 1..Len(tasks[1].items[1]) : RE_is_match(tasks[1].items[1][i].name)
    /\ Filtered(2)
    /\ \E i \in 1..Len(tasks[2].futures) : tasks[2].futures[i].requests = 1

\* the last page received carried no items
LastPageEmpty == res[1].items = None \/ res[1].items = Some(<<>>)

\* C17: an empty page does not end pagination: from the loop, main's next step is
\* a list call with the received token when there is one, and a return with
\* status zero when there is none, whether or not the page had items.
C17_OnlyTokenGovernsTermination ==
    /\ [][(pc = "loop" /\ (list_calls' # list_calls \/ pc' # pc)) =>
              IF res[1].next_page_token # None
              THEN list_calls' = Append(list_calls, res[1].next_page_token)
              ELSE /\ list_calls' = list_calls
                   /\ pc' = "returned"
                   /\ exit_code' = Some(0)]_vars
    /\ []((pc = "loop" /\ LastPageEmpty /\ res[1].next_page_token # None) =>
              (ENABLED ListNext /\ ~ENABLED MainReturn))
    /\ []((pc = "loop" /\ ~LastPageEmpty /\ res[1].next_page_token = None) =>
              (ENABLED MainReturn /\ ~ENABLED ListNext))

\* the first page was empty and carried a token, the second page was fetched with
\* it, had an item and no token, and main returned
C17_Witness ==
    /\ Len(tasks) = 2
    /\ tasks[1].items \in {None, Some(<<>>)}
    /\ list_calls = <<None, Some(1)>>
    /\ tasks[2].items # None
    /\ tasks[2].items[1] # <<>>
    /\ pc = "returned"
    /\ exit_code = Some(0)

\* the number of items of task k's page whose name matches
MatchCount(k) ==
    IF tasks[k].items = None THEN 0
    ELSE Cardinality({n \in 1..Len(tasks[k].items[1]) :
                         RE_is_match(tasks[k].items[1][n].name)})

\* C18: there is no retry: every page cursor is the subject of at most one list
\* call, a failed list call is the last one, every matching object occurrence of a
\* page is the subject of at most one delete request, and a failed delete is
\* never touched again.
C18_NoRetry ==
    /\ [](/\ \A i, j \in 1..Len(list_calls) : i # j => list_calls[i] # list_calls[j]
          /\ ListingFailed => Len(list_calls) = Len(served) + 1
          /\ \A k \in 1..Len(tasks) :
                /\ Len(tasks[k].futures) <= MatchCount(k)
                /\ \A i \in 1..Len(tasks[k].futures) :
                      /\ tasks[k].futures[i].requests <= 1
                      /\ tasks[k].futures[i].st # "spawned" =>
                            tasks[k].futures[i].requests = 1)
    /\ [][\A k \in 1..Len(tasks) : \A i \in 1..Len(tasks[k].futures) :
              tasks[k].futures[i].st = "failed" =>
                  tasks'[k].futures[i] = tasks[k].futures[i]]_vars
    /\ [][ListingFailed => list_calls' = list_calls]_vars

\* a delete request of page 1 failed, then the second list call failed, and the
\* process has exited: each was issued once
C18_Witness ==
    /\ pc = "exited"
    /\ ListingFailed
    /\ Len(list_calls) = 2
    /\ \E i \in 1..Len(tasks[1].futures) :
          /\ tasks[1].futures[i].st = "failed"
          /\ tasks[1].futures[i].requests = 1

\* C19: remove_objects never returns an error, and when it returns no delete
\* request of its batch is pending, whatever succeeded or failed (an empty batch
\* included); once every delete of the batch has ended it can return.
C19_RemoveObjectsReturnsAfterAll ==
    \A k \in 1..Len(tasks) :
        /\ tasks[k].pc = "done" =>
              /\ tasks[k].ret = Some("Ok")
              /\ \A i \in 1..Len(tasks[k].futures) :
                    tasks[k].futures[i].st \in {"ok", "failed"}
        /\ tasks[k].pc # "done" => tasks[k].ret = None
        /\ (/\ pc # "exited"
            /\ tasks[k].pc = "joining"
            /\ \A i \in 1..Len(tasks[k].futures) :
                  tasks[k].futures[i].st \in {"ok", "failed"}) => ENABLED JoinAll(k)

\* remove_objects has returned Ok for a batch of two: the first delete succeeded,
\* the second failed
C19_Witness ==
    \E k \in 1..Len(tasks) :
        /\ tasks[k].pc = "done"
        /\ tasks[k].ret = Some("Ok")
        /\ Len(tasks[k].futures) = 2
        /\ tasks[k].futures[1].st = "ok"
        /\ tasks[k].futures[2].st = "failed"

\* a non-dry run has handled a page whose items match nothing: the batch is empty
\* and remove_objects has returned Ok
C19_EmptyBatchWitness ==
    \E k \in 1..Len(tasks) :
        /\ ~dry_run
        /\ tasks[k].pc = "done"
        /\ tasks[k].items # None
        /\ tasks[k].items[1] # <<>>
        /\ tasks[k].futures = <<>>
        /\ tasks[k].ret = Some("Ok")

\* C20: every locator parse_gsutil_path returns has a non-empty bucket, and a
\* non-empty folder whenever the input has a "/" after the scheme.
C20_ParsedLocatorInvariant ==
    (ret # None /\ ret[1].ok) =>
        /\ ret[1].val.bucket # <<>>
        /\ (\E i \in 6..Len(arg) : arg[i] = "/") => ret[1].val.folder # <<>>

====
